---- MODULE Spec2Model ----
(***************************************************************************)
(* Model of tournament.py: the tournament ledger (a CSV file), ingestion   *)
(* of its rows into Tournament records, the "add" command, and the pure    *)
(* filter / aggregation / grouping functions applied to the loaded list,   *)
(* and the read-path commands summary, graph and details.                  *)
(*                                                                         *)
(* Representation                                                          *)
(*   str    a sequence of one-character strings, <<"M","T","T">>           *)
(*   None   the one-element sequence <<"None">> (no str has such a char)   *)
(*   date   <<year, month, day>>; NoDate = <<0,0,0>> stands for None       *)
(*   float  a binary64 value, held exactly: [neg, mag] with mag the        *)
(*          magnitude in units of 2^-56 as three limbs of 22 bits, least   *)
(*          significant first; every sum is rounded to 53 significant      *)
(*          bits, ties to even, as IEEE-754 addition does                  *)
(***************************************************************************)
EXTENDS Integers, Sequences, FiniteSets, TLC

(***************************************************************************)
(* Bounds of the model.                                                    *)
(***************************************************************************)
\* most rows the ledger file holds
MaxRows == 2

(***************************************************************************)
(* Strings.                                                                *)
(***************************************************************************)
None == <<"None">>

UpperLetters == <<"A","B","C","D","E","F","G","H","I","J","K","L","M",
                  "N","O","P","Q","R","S","T","U","V","W","X","Y","Z">>
LowerLetters == <<"a","b","c","d","e","f","g","h","i","j","k","l","m",
                  "n","o","p","q","r","s","t","u","v","w","x","y","z">>
Digits == <<"0","1","2","3","4","5","6","7","8","9">>

IndexIn(c, letters) ==
  IF \E i \in DOMAIN letters : letters[i] = c
  THEN CHOOSE i \in DOMAIN letters : letters[i] = c
  ELSE 0

\* str.lower() and str.upper(), character by character
LowerChar(c) ==
  IF IndexIn(c, UpperLetters) > 0 THEN LowerLetters[IndexIn(c, UpperLetters)] ELSE c
UpperChar(c) ==
  IF IndexIn(c, LowerLetters) > 0 THEN UpperLetters[IndexIn(c, LowerLetters)] ELSE c
Lower(s) == [i \in DOMAIN s |-> LowerChar(s[i])]
Upper(s) == [i \in DOMAIN s |-> UpperChar(s[i])]

\* str.strip(): drop the leading and the trailing blanks
RECURSIVE LStrip(_)
LStrip(s) == IF s # <<>> /\ Head(s) = " " THEN LStrip(Tail(s)) ELSE s
RECURSIVE RStrip(_)
RStrip(s) ==
  IF s # <<>> /\ s[Len(s)] = " " THEN RStrip(SubSeq(s, 1, Len(s) - 1)) ELSE s
Strip(s) == RStrip(LStrip(s))

\* code points of the characters that occur in group keys
Ord(c) ==
  IF c = "-" THEN 45
  ELSE IF IndexIn(c, Digits) > 0 THEN 47 + IndexIn(c, Digits)
  ELSE IF IndexIn(c, UpperLetters) > 0 THEN 64 + IndexIn(c, UpperLetters)
  ELSE IF IndexIn(c, LowerLetters) > 0 THEN 96 + IndexIn(c, LowerLetters)
  ELSE 32

\* s < t for Python str: by code point, a proper prefix first
RECURSIVE StrLess(_, _)
StrLess(s, t) ==
  IF t = <<>> THEN FALSE
  ELSE IF s = <<>> THEN TRUE
  ELSE IF Head(s) # Head(t) THEN Ord(Head(s)) < Ord(Head(t))
  ELSE StrLess(Tail(s), Tail(t))

IsDigits(s) == s # <<>> /\ \A i \in DOMAIN s : IndexIn(s[i], Digits) > 0

RECURSIVE DigitsValue(_)
DigitsValue(s) ==
  IF s = <<>> THEN 0
  ELSE 10 * DigitsValue(SubSeq(s, 1, Len(s) - 1)) + (IndexIn(s[Len(s)], Digits) - 1)

\* str(n) for n >= 0
RECURSIVE NatStr(_)
NatStr(n) == IF n < 10 THEN <<Digits[n + 1]>> ELSE NatStr(n \div 10) \o <<Digits[(n % 10) + 1]>>
IntStr(n) == IF n < 0 THEN <<"-">> \o NatStr(0 - n) ELSE NatStr(n)

\* n zero-padded to at least w digits ("%02d", "{:02d}")
RECURSIVE ZeroPad(_, _)
ZeroPad(s, w) == IF Len(s) >= w THEN s ELSE ZeroPad(<<"0">> \o s, w)

\* int(value) accepts an optional sign and decimal digits; anything else
\* raises ValueError
IsIntLiteral(s) ==
  IsDigits(IF s # <<>> /\ Head(s) \in {"-", "+"} THEN Tail(s) ELSE s)
IntValue(s) ==
  IF Head(s) = "-" THEN 0 - DigitsValue(Tail(s))
  ELSE IF Head(s) = "+" THEN DigitsValue(Tail(s))
  ELSE DigitsValue(s)

\* the parts of s before and after the first c; <<s>> when s holds no c
SplitAt(s, c) ==
  IF \E i \in DOMAIN s : s[i] = c
  THEN LET i == CHOOSE i \in DOMAIN s : s[i] = c /\ \A j \in 1..(i - 1) : s[j] # c
       IN  <<SubSeq(s, 1, i - 1), SubSeq(s, i + 1, Len(s))>>
  ELSE <<s>>

(***************************************************************************)
(* float: binary64 values and their addition.                              *)
(***************************************************************************)
\* limbs are 22 bits wide; the unit of a magnitude is 2^-56
LimbBits == 22
Base == 4194304
\* a binary64 significand holds 53 bits
MantBits == 53
\* 1.0 in units of 2^-56 is 2^56 = 2^12 * Base^2
OneTop == 4096

RECURSIVE BitLen(_)
BitLen(n) == IF n = 0 THEN 0 ELSE 1 + BitLen(n \div 2)

RECURSIVE Pow2(_)
Pow2(k) == IF k = 0 THEN 1 ELSE 2 * Pow2(k - 1)

MagZero == <<0, 0, 0>>
MagBitLen(m) ==
  IF m[3] > 0 THEN 2 * LimbBits + BitLen(m[3])
  ELSE IF m[2] > 0 THEN LimbBits + BitLen(m[2])
  ELSE BitLen(m[1])

MagLess(a, b) ==
  \/ a[3] < b[3]
  \/ a[3] = b[3] /\ a[2] < b[2]
  \/ a[3] = b[3] /\ a[2] = b[2] /\ a[1] < b[1]

\* exact sum of two magnitudes
MagAdd(a, b) ==
  LET s1 == a[1] + b[1]
      s2 == a[2] + b[2] + (s1 \div Base)
  IN  <<s1 % Base, s2 % Base, a[3] + b[3] + (s2 \div Base)>>

\* exact difference a - b of two magnitudes, a >= b
MagSub(a, b) ==
  LET d1 == a[1] - b[1]
      w1 == IF d1 < 0 THEN 1 ELSE 0
      d2 == a[2] - b[2] - w1
      w2 == IF d2 < 0 THEN 1 ELSE 0
  IN  <<d1 + w1 * Base, d2 + w2 * Base, a[3] - b[3] - w2>>

\* round a magnitude to MantBits significant bits, ties to even
Round53(m) ==
  IF MagBitLen(m) <= MantBits THEN m
  ELSE LET q    == Pow2(MagBitLen(m) - MantBits)
           r    == m[1] % q
           down == <<m[1] - r, m[2], m[3]>>
           odd  == (m[1] \div q) % 2 = 1
       IN  IF 2 * r > q \/ (2 * r = q /\ odd)
           THEN MagAdd(down, <<q, 0, 0>>)
           ELSE down

F(neg, mag) == [neg |-> neg /\ mag # MagZero, mag |-> mag]
FZero == F(FALSE, MagZero)
FNeg(a) == F(~a.neg, a.mag)

\* a + b as the hardware computes it: the exact sum, rounded once
FAdd(a, b) ==
  IF a.neg = b.neg THEN F(a.neg, Round53(MagAdd(a.mag, b.mag)))
  ELSE IF MagLess(a.mag, b.mag) THEN F(b.neg, Round53(MagSub(b.mag, a.mag)))
  ELSE F(a.neg, Round53(MagSub(a.mag, b.mag)))
FSub(a, b) == FAdd(a, FNeg(b))

\* a < b
FLess(a, b) ==
  IF a.neg /\ ~b.neg THEN TRUE
  ELSE IF ~a.neg /\ b.neg THEN FALSE
  ELSE IF a.neg THEN MagLess(b.mag, a.mag)
  ELSE MagLess(a.mag, b.mag)

\* float(n) for a small integer n
FromInt(n) == IF n < 0 THEN F(TRUE, <<0, 0, (0 - n) * OneTop>>) ELSE F(FALSE, <<0, 0, n * OneTop>>)
IsWhole(a) == a.mag[1] = 0 /\ a.mag[2] = 0 /\ a.mag[3] % OneTop = 0
\* the integer a whole float stands for
WholeValue(a) == IF a.neg THEN 0 - (a.mag[3] \div OneTop) ELSE a.mag[3] \div OneTop

\* the binary64 values nearest to the decimal literals with cents that the
\* ledgers of the model use, keyed by the number of cents
CentsTable ==
  [c \in {10, 20, 30, 499, 1099} |->
     CASE c = 10   -> <<1677722, 2516582, 409>>
       [] c = 20   -> <<3355444, 838860, 819>>
       [] c = 30   -> <<838860, 3355443, 1228>>
       [] c = 499  -> <<671104, 167772, 20439>>
       [] c = 1099 -> <<671104, 167772, 45015>>]

\* float(value) accepts a sign, digits and optionally a point and digits
\* (the literals of the model carry at most two decimals); anything else
\* raises ValueError
FloatParts(s) ==
  LET body  == IF s # <<>> /\ Head(s) \in {"-", "+"} THEN Tail(s) ELSE s
      parts == SplitAt(body, ".")
  IN  [neg   |-> s # <<>> /\ Head(s) = "-",
       whole |-> parts[1],
       point |-> Len(parts) = 2,
       frac  |-> IF Len(parts) = 2 THEN parts[2] ELSE <<>>]
IsFloatLiteral(s) ==
  LET p == FloatParts(s)
  IN  IsDigits(p.whole) /\ (p.point => IsDigits(p.frac)) /\ Len(p.frac) <= 2
FloatValue(s) ==
  LET p     == FloatParts(s)
      frac2 == IF p.frac = <<>> THEN <<"0", "0">>
               ELSE IF Len(p.frac) = 1 THEN p.frac \o <<"0">> ELSE p.frac
      cents == 100 * DigitsValue(p.whole) + DigitsValue(frac2)
  IN  IF cents % 100 = 0 THEN F(p.neg, <<0, 0, (cents \div 100) * OneTop>>)
      ELSE F(p.neg, CentsTable[cents])

\* f"{x:.2f}" of a float that a literal with at most two decimals denotes
FloatCents(a) ==
  IF IsWhole(a) THEN 100 * (a.mag[3] \div OneTop)
  ELSE CHOOSE c \in DOMAIN CentsTable : CentsTable[c] = a.mag
Format2f(a) ==
  (IF a.neg THEN <<"-">> ELSE <<>>)
    \o NatStr(FloatCents(a) \div 100) \o <<".">> \o ZeroPad(NatStr(FloatCents(a) % 100), 2)

(***************************************************************************)
(* date: parsing, ordering, ISO calendar and formatting.                   *)
(***************************************************************************)
NoDate == <<0, 0, 0>>
\* the outcome of a parse_date call that raised
DateError == <<-1, 0, 0>>

IsLeap(y) == y % 4 = 0 /\ (y % 100 # 0 \/ y % 400 = 0)
DaysInMonth(y, m) ==
  IF m = 2 THEN (IF IsLeap(y) THEN 29 ELSE 28)
  ELSE IF m \in {4, 6, 9, 11} THEN 30 ELSE 31

\* parse_date: strptime(date_str, "%Y-%m-%d").date(); %Y takes exactly four
\* digits, %m and %d one or two; a date out of range raises ValueError
parse_date(s) ==
  LET p1 == SplitAt(s, "-")
      p2 == IF Len(p1) = 2 THEN SplitAt(p1[2], "-") ELSE <<>>
      y  == DigitsValue(p1[1])
      m  == DigitsValue(p2[1])
      d  == DigitsValue(p2[2])
  IN  IF s = None \/ Len(p1) # 2 \/ Len(p2) # 2 THEN DateError
      ELSE IF ~(IsDigits(p1[1]) /\ Len(p1[1]) = 4) THEN DateError
      ELSE IF ~(IsDigits(p2[1]) /\ Len(p2[1]) <= 2) THEN DateError
      ELSE IF ~(IsDigits(p2[2]) /\ Len(p2[2]) <= 2) THEN DateError
      ELSE IF y < 1 \/ m < 1 \/ m > 12 \/ d < 1 \/ d > DaysInMonth(y, m) THEN DateError
      ELSE <<y, m, d>>

\* a < b for two dates
DateLess(a, b) ==
  \/ a[1] < b[1]
  \/ a[1] = b[1] /\ a[2] < b[2]
  \/ a[1] = b[1] /\ a[2] = b[2] /\ a[3] < b[3]

\* date.toordinal(): days since 0001-01-01, that day being 1
RECURSIVE DaysBeforeMonth(_, _)
DaysBeforeMonth(y, m) ==
  IF m = 1 THEN 0 ELSE DaysBeforeMonth(y, m - 1) + DaysInMonth(y, m - 1)
DaysBeforeYear(y) ==
  (y - 1) * 365 + ((y - 1) \div 4) - ((y - 1) \div 100) + ((y - 1) \div 400)
ToOrdinal(d) == DaysBeforeYear(d[1]) + DaysBeforeMonth(d[1], d[2]) + d[3]

\* ordinal of the Monday that starts ISO week 1 of year y
IsoWeek1Monday(y) ==
  LET first_day     == ToOrdinal(<<y, 1, 1>>)
      first_weekday == (first_day + 6) % 7
      week1_monday  == first_day - first_weekday
  IN  IF first_weekday > 3 THEN week1_monday + 7 ELSE week1_monday

\* date.isocalendar(): <<ISO year, ISO week>>
IsoCalendar(d) ==
  LET today == ToOrdinal(d)
      w1    == IsoWeek1Monday(d[1])
  IN  IF today < w1
      THEN <<d[1] - 1, ((today - IsoWeek1Monday(d[1] - 1)) \div 7) + 1>>
      ELSE IF (today - w1) \div 7 >= 52 /\ today >= IsoWeek1Monday(d[1] + 1)
      THEN <<d[1] + 1, 1>>
      ELSE <<d[1], ((today - w1) \div 7) + 1>>

\* strftime("%Y"): the C library decides whether a year below 1000 is
\* zero-padded to four digits (glibc does not pad); pads is that choice
StrfYear(y, pads) == IF pads THEN ZeroPad(NatStr(y), 4) ELSE NatStr(y)
\* strftime("%Y-%m-%d") and strftime("%Y-%m")
StrfMonth(d, pads) == StrfYear(d[1], pads) \o <<"-">> \o ZeroPad(NatStr(d[2]), 2)
StrfDay(d, pads) == StrfMonth(d, pads) \o <<"-">> \o ZeroPad(NatStr(d[3]), 2)
\* f"{iso_year}-W{iso_week:02d}"
WeekKey(d) ==
  NatStr(IsoCalendar(d)[1]) \o <<"-", "W">> \o ZeroPad(NatStr(IsoCalendar(d)[2]), 2)

(***************************************************************************)
(* Tournament records and the CSV ledger.                                  *)
(***************************************************************************)
CSV_HEADERS ==
  <<"date", "room", "name", "buy_in", "rake", "currency", "result", "place",
    "players", "format", "notes">>

\* the Tournament dataclass
Tournament(d, room, name, buy_in, rake, currency, result, place, players, format, notes) ==
  [date |-> d, room |-> room, name |-> name, buy_in |-> buy_in, rake |-> rake,
   currency |-> currency, result |-> result, place |-> place, players |-> players,
   format |-> format, notes |-> notes]

total_cost(t) == FAdd(t.buy_in, t.rake)
profit(t) == FSub(t.result, total_cost(t))
is_itm(t) == FLess(FZero, t.result)

\* csv.DictReader: the cells of a line under the names of the header line;
\* a line shorter than the header gives None for the names it does not reach,
\* and the cells beyond the header are not stored under any column name
DictRow(fieldnames, cells) ==
  [k \in {fieldnames[i] : i \in DOMAIN fieldnames} |->
     LET i == CHOOSE i \in DOMAIN fieldnames : fieldnames[i] = k
     IN  IF i <= Len(cells) THEN cells[i] ELSE None]

\* row.get(key, default)
Get(row, key, default) == IF key \in DOMAIN row THEN row[key] ELSE default

\* to_float and to_int of from_csv_row: blank and non-numeric give 0
to_float(value) ==
  IF Strip(value) = <<>> THEN FZero
  ELSE IF IsFloatLiteral(Strip(value)) THEN FloatValue(Strip(value)) ELSE FZero
to_int(value) ==
  IF Strip(value) = <<>> THEN 0
  ELSE IF IsIntLiteral(Strip(value)) THEN IntValue(Strip(value)) ELSE 0

\* Tournament.from_csv_row: the record, or [warning |-> ...] where the code
\* prints a warning and returns None.  row["date"] raises on a header without
\* a date column and parse_date raises on None and on a malformed date; a None
\* cell in any other column raises AttributeError at .strip(), which the
\* second try block catches.
from_csv_row(row) ==
  LET d == IF "date" \in DOMAIN row THEN parse_date(row["date"]) ELSE DateError
      none == \E k \in {"room", "name", "currency", "format", "notes"} : Get(row, k, <<>>) = None
      noneNum == \E k \in {"buy_in", "rake", "result", "place", "players"} :
                    Get(row, k, <<"0">>) = None
  IN  IF d = DateError THEN [warning |-> "date"]
      ELSE IF none \/ noneNum THEN [warning |-> "row"]
      ELSE Tournament(d,
             Strip(Get(row, "room", <<>>)),
             Strip(Get(row, "name", <<>>)),
             to_float(Get(row, "buy_in", <<"0">>)),
             to_float(Get(row, "rake", <<"0">>)),
             IF Strip(Get(row, "currency", <<>>)) = <<>> THEN <<"U", "S", "D">>
             ELSE Strip(Get(row, "currency", <<>>)),
             to_float(Get(row, "result", <<"0">>)),
             to_int(Get(row, "place", <<"0">>)),
             to_int(Get(row, "players", <<"0">>)),
             Strip(Get(row, "format", <<>>)),
             Strip(Get(row, "notes", <<>>)))
IsTournament(r) == "date" \in DOMAIN r

\* LoadRows leaving the loop at the first row from_csv_row rejects
RECURSIVE LoadRows_stop(_, _, _)
LoadRows_stop(fieldnames, rows, tournaments) ==
  IF rows = <<>> THEN tournaments
  ELSE LET t == from_csv_row(DictRow(fieldnames, Head(rows)))
       IN  IF IsTournament(t)
           THEN LoadRows_stop(fieldnames, Tail(rows), Append(tournaments, t))
           ELSE tournaments

\* the loop of load_tournaments: the records of the rows from_csv_row accepts
RECURSIVE LoadRows(_, _, _)
LoadRows(fieldnames, rows, tournaments) ==
  IF rows = <<>> THEN tournaments
  ELSE LET t == from_csv_row(DictRow(fieldnames, Head(rows)))
       IN  LoadRows(fieldnames, Tail(rows),
             IF IsTournament(t) THEN Append(tournaments, t) ELSE tournaments)

\* the warnings load_tournaments prints: missing columns, then one per
\* rejected row
RECURSIVE RowWarnings(_, _, _)
RowWarnings(fieldnames, rows, printed) ==
  IF rows = <<>> THEN printed
  ELSE LET t == from_csv_row(DictRow(fieldnames, Head(rows)))
       IN  RowWarnings(fieldnames, Tail(rows),
             IF IsTournament(t) THEN printed ELSE Append(printed, t.warning))
MissingColumns(fieldnames) ==
  \E i \in DOMAIN CSV_HEADERS : \A j \in DOMAIN fieldnames : fieldnames[j] # CSV_HEADERS[i]
LoadWarnings(fieldnames, rows) ==
  RowWarnings(fieldnames, rows, IF MissingColumns(fieldnames) THEN <<"columns">> ELSE <<>>)

\* the line append_tournament writes for a record
CsvLine(t, pads) ==
  <<StrfDay(t.date, pads), t.room, t.name, Format2f(t.buy_in), Format2f(t.rake),
    t.currency, Format2f(t.result), IntStr(t.place), IntStr(t.players), t.format,
    t.notes>>

NoFile == [exists |-> FALSE, header |-> <<>>, rows |-> <<>>]
\* append_tournament: a missing file is created with the header line
append_tournament(f, t, pads) ==
  [exists |-> TRUE,
   header |-> IF f.exists THEN f.header ELSE CSV_HEADERS,
   rows   |-> Append(f.rows, CsvLine(t, pads))]

(***************************************************************************)
(* Filtering.                                                              *)
(***************************************************************************)
\* a str argument counts as given when it is neither None nor empty
Truthy(s) == s # None /\ s # <<>>

\* Passes with the lower date bound made exclusive
Passes_exclusive_from(t, from_date, to_date, room, format_, currency) ==
  IF from_date # NoDate /\ ~DateLess(from_date, t.date) THEN FALSE
  ELSE IF to_date # NoDate /\ DateLess(to_date, t.date) THEN FALSE
  ELSE IF Truthy(room) /\ Lower(t.room) # Lower(room) THEN FALSE
  ELSE IF Truthy(format_) /\ Lower(t.format) # Lower(format_) THEN FALSE
  ELSE IF Truthy(currency) /\ Upper(t.currency) # Upper(currency) THEN FALSE
  ELSE TRUE

\* the body of the loop of filter_tournaments: TRUE when t reaches
\* result.append(t), FALSE when one of the tests hits continue
Passes(t, from_date, to_date, room, format_, currency) ==
  IF from_date # NoDate /\ DateLess(t.date, from_date) THEN FALSE
  ELSE IF to_date # NoDate /\ DateLess(to_date, t.date) THEN FALSE
  ELSE IF Truthy(room) /\ Lower(t.room) # Lower(room) THEN FALSE
  ELSE IF Truthy(format_) /\ Lower(t.format) # Lower(format_) THEN FALSE
  ELSE IF Truthy(currency) /\ Upper(t.currency) # Upper(currency) THEN FALSE
  ELSE TRUE

RECURSIVE FilterLoop(_, _, _, _, _, _, _)
FilterLoop(ts, from_date, to_date, room, format_, currency, result) ==
  IF ts = <<>> THEN result
  ELSE FilterLoop(Tail(ts), from_date, to_date, room, format_, currency,
         IF Passes(Head(ts), from_date, to_date, room, format_, currency)
         THEN Append(result, Head(ts)) ELSE result)

\* filter_tournaments with the loop started at the second record
filter_tournaments_skip_first(ts, from_date, to_date, room, format_, currency) ==
  FilterLoop(IF ts = <<>> THEN ts ELSE Tail(ts), from_date, to_date, room, format_, currency, <<>>)

filter_tournaments(ts, from_date, to_date, room, format_, currency) ==
  FilterLoop(ts, from_date, to_date, room, format_, currency, <<>>)

(***************************************************************************)
(* Aggregation.                                                            *)
(***************************************************************************)
\* sum(...) over the floats of a list: from 0, left to right, each partial sum
\* rounded
RECURSIVE FSum(_, _)
FSum(xs, acc) == IF xs = <<>> THEN acc ELSE FSum(Tail(xs), FAdd(acc, Head(xs)))

RECURSIVE CountItm(_, _)
CountItm(ts, n) ==
  IF ts = <<>> THEN n ELSE CountItm(Tail(ts), IF is_itm(Head(ts)) THEN n + 1 ELSE n)

\* num / den * 100.  The quotient is kept as the pair of its operands; a zero
\* divisor raises ZeroDivisionError.
Percent(num, den, denIsZero) ==
  IF denIsZero THEN [raised |-> "ZeroDivisionError"] ELSE [num |-> num, den |-> den]

\* calc_summary_stats with the rake left out of the total cost
calc_summary_stats_no_rake(ts) ==
  LET total_buy_in == FSum([i \in DOMAIN ts |-> ts[i].buy_in], FZero)
      total_result == FSum([i \in DOMAIN ts |-> ts[i].result], FZero)
      profit_      == FSub(total_result, total_buy_in)
  IN  [total        |-> Len(ts),
       total_itm    |-> CountItm(ts, 0),
       total_buy_in |-> total_buy_in,
       total_rake   |-> FSum([i \in DOMAIN ts |-> ts[i].rake], FZero),
       total_cost   |-> total_buy_in,
       total_result |-> total_result,
       profit       |-> profit_,
       itm_pct      |-> IF Len(ts) # 0 THEN Percent(CountItm(ts, 0), Len(ts), FALSE) ELSE FZero,
       roi_pct      |-> IF FLess(FZero, total_buy_in)
                        THEN Percent(profit_, total_buy_in, FALSE) ELSE FZero]

calc_summary_stats(ts) ==
  LET total        == Len(ts)
      total_itm    == CountItm(ts, 0)
      total_buy_in == FSum([i \in DOMAIN ts |-> ts[i].buy_in], FZero)
      total_rake   == FSum([i \in DOMAIN ts |-> ts[i].rake], FZero)
      total_cost_  == FAdd(total_buy_in, total_rake)
      total_result == FSum([i \in DOMAIN ts |-> ts[i].result], FZero)
      profit_      == FSub(total_result, total_cost_)
  IN  [total        |-> total,
       total_itm    |-> total_itm,
       total_buy_in |-> total_buy_in,
       total_rake   |-> total_rake,
       total_cost   |-> total_cost_,
       total_result |-> total_result,
       profit       |-> profit_,
       itm_pct      |-> IF total # 0 THEN Percent(total_itm, total, total = 0) ELSE FZero,
       roi_pct      |-> IF FLess(FZero, total_cost_)
                        THEN Percent(profit_, total_cost_, total_cost_ = FZero)
                        ELSE FZero]

(***************************************************************************)
(* Grouping.  A dict is the sequence of its <<key, value>> items in        *)
(* insertion order.                                                        *)
(***************************************************************************)
HasKey(d, k) == \E i \in DOMAIN d : d[i][1] = k
\* d[k].append(t) on a defaultdict(list)
AppendTo(d, k, t) ==
  IF HasKey(d, k)
  THEN [i \in DOMAIN d |-> IF d[i][1] = k THEN <<k, Append(d[i][2], t)>> ELSE d[i]]
  ELSE Append(d, <<k, <<t>>>>)

UNKNOWN == <<"U", "N", "K", "N", "O", "W", "N">>
ALL == <<"A", "L", "L">>

\* FormatLoop keying a record with an empty format by the empty string
RECURSIVE FormatLoop_no_unknown(_, _)
FormatLoop_no_unknown(ts, groups) ==
  IF ts = <<>> THEN groups
  ELSE FormatLoop_no_unknown(Tail(ts), AppendTo(groups, Head(ts).format, Head(ts)))

RECURSIVE FormatLoop(_, _)
FormatLoop(ts, groups) ==
  IF ts = <<>> THEN groups
  ELSE FormatLoop(Tail(ts),
         AppendTo(groups, IF Head(ts).format # <<>> THEN Head(ts).format ELSE UNKNOWN, Head(ts)))
group_by_format(ts) == FormatLoop(ts, <<>>)

\* the four labels of group_by_buyin_range; EnDash is the character U+2013
EnDash == "en-dash"
Range0 == <<"0", EnDash, "5">>
Range5 == <<"5", EnDash, "1", "1">>
Range11 == <<"1", "1", EnDash, "3", "3">>
Range33 == <<"3", "3", "+">>

\* BuyinRange with the first bound inclusive: a buy-in of 5 falls in the lowest range
BuyinRange_inclusive_5(bi) ==
  IF ~FLess(FromInt(5), bi) THEN Range0
  ELSE IF FLess(bi, FromInt(11)) THEN Range5
  ELSE IF FLess(bi, FromInt(33)) THEN Range11
  ELSE Range33

\* the if / elif chain of group_by_buyin_range
BuyinRange(bi) ==
  IF FLess(bi, FromInt(5)) THEN Range0
  ELSE IF ~FLess(bi, FromInt(5)) /\ FLess(bi, FromInt(11)) THEN Range5
  ELSE IF ~FLess(bi, FromInt(11)) /\ FLess(bi, FromInt(33)) THEN Range11
  ELSE Range33

RECURSIVE BuyinLoop(_, _)
BuyinLoop(ts, ranges) ==
  IF ts = <<>> THEN ranges
  ELSE BuyinLoop(Tail(ts), AppendTo(ranges, BuyinRange(Head(ts).buy_in), Head(ts)))
group_by_buyin_range(ts) ==
  BuyinLoop(ts, <<<<Range0, <<>>>>, <<Range5, <<>>>>, <<Range11, <<>>>>, <<Range33, <<>>>>>>)

\* TimeKey keying by day under a mode it does not know
TimeKey_unknown_by_day(t, show_by, pads) ==
  IF show_by = "week" THEN WeekKey(t.date)
  ELSE IF show_by = "month" THEN StrfMonth(t.date, pads)
  ELSE StrfDay(t.date, pads)

\* the key group_by_time gives a record
TimeKey(t, show_by, pads) ==
  IF show_by = "day" THEN StrfDay(t.date, pads)
  ELSE IF show_by = "week" THEN WeekKey(t.date)
  ELSE IF show_by = "month" THEN StrfMonth(t.date, pads)
  ELSE ALL

RECURSIVE TimeLoop(_, _, _, _)
TimeLoop(ts, show_by, pads, buckets) ==
  IF ts = <<>> THEN buckets
  ELSE TimeLoop(Tail(ts), show_by, pads,
         AppendTo(buckets, TimeKey(Head(ts), show_by, pads), Head(ts)))

\* sorted(items, key=lambda kv: kv[0]): a stable sort by key
RECURSIVE InsertByKey(_, _)
InsertByKey(sorted, kv) ==
  IF sorted = <<>> THEN <<kv>>
  ELSE IF StrLess(kv[1], sorted[Len(sorted)][1])
  THEN Append(InsertByKey(SubSeq(sorted, 1, Len(sorted) - 1), kv), sorted[Len(sorted)])
  ELSE Append(sorted, kv)
RECURSIVE SortedByKey(_, _)
SortedByKey(items, sorted) ==
  IF items = <<>> THEN sorted ELSE SortedByKey(Tail(items), InsertByKey(sorted, Head(items)))

\* group_by_time without the early return for "none"
group_by_time_no_return(ts, show_by, pads) ==
  SortedByKey(TimeLoop(ts, show_by, pads, <<>>), <<>>)

group_by_time(ts, show_by, pads) ==
  IF show_by = "none" THEN <<<<ALL, ts>>>>
  ELSE SortedByKey(TimeLoop(ts, show_by, pads, <<>>), <<>>)

(***************************************************************************)
(* The ledgers, the arguments and the state machine.                       *)
(***************************************************************************)
sPokerOK == <<"P", "o", "k", "e", "r", "O", "K">>
sMTT == <<"M", "T", "T">>
sUSD == <<"U", "S", "D">>
sDate(y, m, d) == ZeroPad(NatStr(y), 4) \o <<"-">> \o ZeroPad(NatStr(m), 2) \o <<"-">> \o ZeroPad(NatStr(d), 2)

\* the lines a ledger of the model is made of
RowA == <<sDate(2024, 12, 30), sPokerOK, <<"a">>, <<"0", ".", "1">>, <<"0", ".", "2">>,
          <<"u", "s", "d">>, <<"0", ".", "3">>, <<"1">>, <<"9">>, sMTT, <<>>>>
RowB == <<sDate(2025, 1, 5), Lower(sPokerOK), <<"b">>, <<"5">>, <<>>, <<>>, <<"2", "0">>,
          <<"x">>, <<>>, <<>>, <<>>>>
RowC == <<sDate(999, 6, 1), <<" ", "G", "G", " ">>, <<"c">>, <<"-", "5">>, <<"a", "b", "c">>,
          <<"E", "U", "R">>, <<"0">>, <<"-", "1">>, <<"0">>, <<"S", "n", "G">>, <<>>>>
RowD == <<<<"2", "0", "2", "4", "-", "1", "3", "-", "0", "1">>, sPokerOK, <<"d">>, <<"5">>,
          <<"0">>, sUSD, <<"0">>, <<"0">>, <<"0">>, sMTT, <<>>>>
RowE == <<sDate(2024, 1, 5), sPokerOK, <<"e">>>>
RowF == <<sDate(2024, 1, 5), <<"S", "t", "a", "r", "s">>, <<"f">>, <<"1", "1">>, <<"1">>, sUSD,
          <<"0">>, <<"0">>, <<"0">>, Lower(sMTT), <<>>>>
RowG == <<sDate(2024, 1, 6), sPokerOK, <<"g">>, <<"1", "0", ".", "9", "9">>,
          <<"4", ".", "9", "9">>, sUSD, <<"0">>, <<"2">>, <<"9">>, sMTT, <<>>>>
RowH == <<sDate(2025, 1, 5), sPokerOK, <<"h">>, <<"4", ".", "9", "9">>, <<"0">>, sUSD,
          <<"0">>, <<"0">>, <<"0">>, sMTT, <<>>>>
RowI == <<sDate(2025, 1, 6), sPokerOK, <<"i">>, <<"3", "3">>, <<" ", "3", " ">>, sUSD,
          <<"3", "3">>, <<"0">>, <<"0">>, sMTT, <<>>>>
Rows == {RowA, RowB, RowC, RowD, RowE, RowF, RowG, RowH, RowI}

RECURSIVE SeqsUpTo(_, _)
SeqsUpTo(S, n) ==
  IF n = 0 THEN {<<>>}
  ELSE SeqsUpTo(S, n - 1) \cup {Append(q, x) : q \in {p \in SeqsUpTo(S, n - 1) : Len(p) = n - 1}, x \in S}

\* a ledger has the full header, or only the first three columns
ShortHeader == SubSeq(CSV_HEADERS, 1, 3)
Ledgers ==
  {NoFile}
    \cup {[exists |-> TRUE, header |-> CSV_HEADERS, rows |-> rs] : rs \in SeqsUpTo(Rows, MaxRows)}
    \cup {[exists |-> TRUE, header |-> ShortHeader, rows |-> rs] : rs \in SeqsUpTo({RowE}, MaxRows)}

\* the arguments of the add command
AddArgs ==
  {[date |-> None, room |-> None, name |-> <<"n">>, buy_in |-> <<"-", "5">>, rake |-> None,
    currency |-> <<"e", "u", "r">>, result |-> <<"x">>, place |-> <<"-", "1">>,
    players |-> None, format |-> None, notes |-> None],
   [date |-> <<"2", "0", "2", "4", "-", "1", "-", "5">>, room |-> <<"G", "G">>,
    name |-> <<"m">>, buy_in |-> <<"0", ".", "1">>, rake |-> <<"0", ".", "2">>,
    currency |-> None, result |-> <<"0", ".", "3">>, place |-> <<"2">>,
    players |-> <<"9">>, format |-> <<"S", "n", "G">>, notes |-> <<>>],
   [date |-> <<"b", "a", "d">>, room |-> None, name |-> <<"n">>, buy_in |-> <<"5">>,
    rake |-> None, currency |-> None, result |-> None, place |-> None, players |-> None,
    format |-> None, notes |-> None]}
\* date.today()
Todays == {<<2025, 1, 6>>}

\* the criteria filter_tournaments is called with
FromDates == {NoDate, <<2024, 12, 30>>}
ToDates == {NoDate, <<2025, 1, 5>>}
RoomArgs == {None, <<>>, Upper(sPokerOK)}
FormatArgs == {None, Lower(sMTT)}
CurrencyArgs == {None, Lower(sUSD)}
ShowBy == {"none", "day", "week", "month", "year"}

\* the arguments of the read-path commands: --from and --to as typed, an
\* unparseable string among them; --room, --format and --currency not given
sFrom == <<"2", "0", "2", "5", "-", "1", "-", "5">>
sBad == <<"b", "a", "d">>
ReadArgs ==
  {[from_date |-> d[1], to_date |-> d[2], room |-> None, format |-> None, currency |-> None] :
     d \in {<<None, None>>, <<sFrom, None>>, <<None, sBad>>}}
\* --show-by of summary
SummaryShowBy == {"none", "month"}
\* --metric as typed, and the choices the parser accepts
MetricChoices == {"profit", "bankroll"}
\* --metric and --start-bankroll as typed
GraphArgs ==
  {[metric |-> "profit", start_bankroll |-> None],
   [metric |-> "bankroll", start_bankroll |-> None],
   [metric |-> "bankroll", start_bankroll |-> <<"1", "0", "0">>],
   [metric |-> "roi", start_bankroll |-> None]}
\* --limit as typed
Limits == {None, <<"1">>}

VARIABLES file, pc, tournaments, printed, out
vars == <<file, pc, tournaments, printed, out>>

NoOut == [op |-> "none"]

Init ==
  /\ file \in Ledgers
  /\ pc = "start"
  /\ tournaments = <<>>
  /\ printed = <<>>
  /\ out = NoOut

\* load_tournaments
LoadTournaments ==
  /\ pc = "start"
  /\ IF ~file.exists
     THEN /\ out' = [op |-> "load", raised |-> "FileNotFoundError"]
          /\ pc' = "done"
          /\ UNCHANGED <<tournaments, printed>>
     ELSE /\ tournaments' = LoadRows(file.header, file.rows, <<>>)
          /\ printed' = LoadWarnings(file.header, file.rows)
          /\ out' = [op |-> "load"]
          /\ pc' = "loaded"
  /\ UNCHANGED file

\* f_or_default and i_or_default of handle_add
f_or_default(v, default) ==
  IF v = None THEN default
  ELSE IF IsFloatLiteral(Strip(v)) THEN FloatValue(Strip(v)) ELSE default
i_or_default(v, default) ==
  IF v = None THEN default
  ELSE IF IsIntLiteral(Strip(v)) THEN IntValue(Strip(v)) ELSE default
OrDefault(v, default) == IF Truthy(v) THEN v ELSE default

\* the record handle_add builds from its arguments and the date d
AddedTournament(args, d) ==
  Tournament(d,
    OrDefault(args.room, sPokerOK),
    args.name,
    f_or_default(args.buy_in, FZero),
    f_or_default(args.rake, FZero),
    Upper(OrDefault(args.currency, sUSD)),
    f_or_default(args.result, FZero),
    i_or_default(args.place, 0),
    i_or_default(args.players, 0),
    OrDefault(args.format, sMTT),
    OrDefault(args.notes, <<>>))

\* handle_add
HandleAdd(args, today, pads) ==
  /\ pc = "start"
  /\ Len(file.rows) < MaxRows
  /\ LET d == IF Truthy(args.date) THEN parse_date(args.date) ELSE today
     IN  IF d = DateError
         THEN /\ out' = [op |-> "add", error |-> "date"]
              /\ UNCHANGED file
         ELSE /\ file' = append_tournament(file, AddedTournament(args, d), pads)
              /\ out' = [op |-> "add", t |-> AddedTournament(args, d)]
  /\ pc' = "done"
  /\ UNCHANGED <<tournaments, printed>>

FilterTournaments(from_date, to_date, room, format_, currency) ==
  /\ pc = "loaded"
  /\ out' = [op |-> "filter", from_date |-> from_date, to_date |-> to_date, room |-> room,
             format |-> format_, currency |-> currency, input |-> tournaments,
             result |-> filter_tournaments(tournaments, from_date, to_date, room, format_, currency)]
  /\ pc' = "done"
  /\ UNCHANGED <<file, tournaments, printed>>

CalcSummaryStats ==
  /\ pc = "loaded"
  /\ out' = [op |-> "stats", input |-> tournaments, result |-> calc_summary_stats(tournaments)]
  /\ pc' = "done"
  /\ UNCHANGED <<file, tournaments, printed>>

GroupByFormat ==
  /\ pc = "loaded"
  /\ out' = [op |-> "by_format", input |-> tournaments, result |-> group_by_format(tournaments)]
  /\ pc' = "done"
  /\ UNCHANGED <<file, tournaments, printed>>

GroupByBuyinRange ==
  /\ pc = "loaded"
  /\ out' = [op |-> "by_buyin", input |-> tournaments,
             result |-> group_by_buyin_range(tournaments)]
  /\ pc' = "done"
  /\ UNCHANGED <<file, tournaments, printed>>

GroupByTime(show_by, pads) ==
  /\ pc = "loaded"
  /\ out' = [op |-> "by_time", show_by |-> show_by, pads |-> pads, input |-> tournaments,
             result |-> group_by_time(tournaments, show_by, pads)]
  /\ pc' = "done"
  /\ UNCHANGED <<file, tournaments, printed>>

\* parse_date(args.x) if args.x else None
DateArg(s) == IF Truthy(s) THEN parse_date(s) ELSE NoDate

\* if not tournaments: print(...); return
Filtered(ts) ==
  [steps |-> <<"load_tournaments", "parse_date", "filter_tournaments">>,
   outcome |-> IF ts = <<>> THEN "not_found" ELSE "filtered",
   tournaments |-> ts]

\* the opening of handle_summary, handle_graph and handle_details, the same
\* statements in each: load the ledger (a missing file is printed and the
\* handler returns), parse --from and --to (parse_date raises ValueError,
\* which nothing catches), filter, and return with a message when nothing is
\* left.  steps lists the calls made, in order.
LoadAndFilter(f, args) ==
  IF ~f.exists
  THEN [steps |-> <<"load_tournaments">>, outcome |-> "FileNotFoundError", tournaments |-> <<>>]
  ELSE IF DateArg(args.from_date) = DateError \/ DateArg(args.to_date) = DateError
  THEN [steps |-> <<"load_tournaments", "parse_date">>, outcome |-> "ValueError",
        tournaments |-> <<>>]
  ELSE Filtered(filter_tournaments(LoadRows(f.header, f.rows, <<>>), DateArg(args.from_date),
                  DateArg(args.to_date), args.room, args.format, args.currency))

\* tournaments.sort(key=lambda t: t.date): stable, ascending
RECURSIVE InsertByDate(_, _)
InsertByDate(sorted, t) ==
  IF sorted = <<>> THEN <<t>>
  ELSE IF DateLess(t.date, sorted[Len(sorted)].date)
  THEN Append(InsertByDate(SubSeq(sorted, 1, Len(sorted) - 1), t), sorted[Len(sorted)])
  ELSE Append(sorted, t)
RECURSIVE SortedByDate(_, _)
SortedByDate(ts, sorted) ==
  IF ts = <<>> THEN sorted ELSE SortedByDate(Tail(ts), InsertByDate(sorted, Head(ts)))

\* calc_summary_stats of each group of a grouping, as the loops of
\* handle_summary print them
GroupStats(groups) ==
  [i \in DOMAIN groups |-> <<groups[i][1], calc_summary_stats(groups[i][2])>>]
\* if not ts: continue
NonEmptyGroup(g) == g[2] # <<>>

\* handle_summary from the filtered list p on: the overall statistics and
\* those of the groups by format, by buy-in range and, unless --show-by is
\* none, by period
SummaryReport(p, show_by, pads) ==
  IF p.outcome # "filtered"
  THEN [steps |-> p.steps, outcome |-> p.outcome, result |-> <<>>]
  ELSE [steps   |-> p.steps
                      \o <<"calc_summary_stats", "group_by_format", "group_by_buyin_range">>
                      \o (IF show_by # "none" THEN <<"group_by_time">> ELSE <<>>),
        outcome |-> "ok",
        result  |-> <<calc_summary_stats(p.tournaments),
                      GroupStats(group_by_format(p.tournaments)),
                      GroupStats(SelectSeq(group_by_buyin_range(p.tournaments), NonEmptyGroup)),
                      IF show_by # "none"
                      THEN GroupStats(group_by_time(p.tournaments, show_by, pads))
                      ELSE <<>> >>]

handle_summary(f, args, show_by, pads) == SummaryReport(LoadAndFilter(f, args), show_by, pads)

\* None where a float is expected (args.start_bankroll not given)
NoFloat == [neg |-> FALSE, mag |-> <<>>]

\* the loop of handle_graph: cumulative is the running total with the profit
\* of the record at hand added, rest the records still to come
RECURSIVE CumulativeLoop(_, _, _)
CumulativeLoop(rest, cumulative, y_values) ==
  IF rest = <<>> THEN Append(y_values, cumulative)
  ELSE CumulativeLoop(Tail(rest), FAdd(cumulative, profit(Head(rest))),
         Append(y_values, cumulative))

\* handle_graph from the filtered list p on: sort, check the metric and the
\* starting bankroll, accumulate
GraphSeries(p, metric, start_bankroll) ==
  IF p.outcome # "filtered"
  THEN [steps |-> <<"import_matplotlib">> \o p.steps, outcome |-> p.outcome, result |-> <<>>]
  ELSE IF metric \notin {"profit", "bankroll"}
  THEN [steps |-> <<"import_matplotlib">> \o p.steps \o <<"sort">>,
        outcome |-> "metric_error", result |-> <<>>]
  ELSE IF metric = "bankroll" /\ start_bankroll = NoFloat
  THEN [steps |-> <<"import_matplotlib">> \o p.steps \o <<"sort">>,
        outcome |-> "start_bankroll_error", result |-> <<>>]
  ELSE [steps   |-> <<"import_matplotlib">> \o p.steps \o <<"sort", "cumulative", "plot">>,
        outcome |-> "ok",
        result  |-> CumulativeLoop(Tail(p.tournaments),
                      FAdd(IF metric = "bankroll" THEN start_bankroll ELSE FZero,
                           profit(Head(p.tournaments))),
                      <<>>)]

handle_graph(f, args, metric, start_bankroll, has_matplotlib) ==
  IF ~has_matplotlib
  THEN [steps |-> <<"import_matplotlib">>, outcome |-> "ImportError", result |-> <<>>]
  ELSE GraphSeries([LoadAndFilter(f, args) EXCEPT !.tournaments = SortedByDate(@, <<>>)],
                   metric, start_bankroll)

\* tournaments[: args.limit] when the limit is given and positive
Limited(ts, limit) ==
  IF limit # None /\ IntValue(limit) > 0 /\ IntValue(limit) < Len(ts)
  THEN SubSeq(ts, 1, IntValue(limit)) ELSE ts

\* handle_details from the filtered list p on: sort, cut at the limit, and
\* print each record with its total cost and its profit
DetailRows(p, limit) ==
  IF p.outcome # "filtered"
  THEN [steps |-> p.steps, outcome |-> p.outcome, result |-> <<>>]
  ELSE [steps   |-> p.steps \o <<"sort", "limit", "print_rows">>,
        outcome |-> "ok",
        result  |-> [i \in DOMAIN Limited(p.tournaments, limit) |->
                       [t            |-> p.tournaments[i],
                        buy_in_total |-> total_cost(p.tournaments[i]),
                        profit       |-> profit(p.tournaments[i])]]]

handle_details(f, args, limit) ==
  DetailRows([LoadAndFilter(f, args) EXCEPT !.tournaments = SortedByDate(@, <<>>)], limit)

\* the warnings a read-path command prints while it loads the ledger
ReadWarnings == IF file.exists THEN LoadWarnings(file.header, file.rows) ELSE <<>>

\* what a run of a read-path command leaves: the command line and the run r
\* of its handler
SummaryOut(args, show_by, r) ==
  [op |-> "summary", args |-> args, show_by |-> show_by,
   steps |-> r.steps, outcome |-> r.outcome, result |-> r.result]
GraphOut(args, metric, start_bankroll, has_matplotlib, r) ==
  [op |-> "graph", args |-> args, metric |-> metric, start_bankroll |-> start_bankroll,
   has_matplotlib |-> has_matplotlib,
   steps |-> r.steps, outcome |-> r.outcome, result |-> r.result]
DetailsOut(args, limit, r) ==
  [op |-> "details", args |-> args, limit |-> limit,
   steps |-> r.steps, outcome |-> r.outcome, result |-> r.result]

\* main with the summary command
HandleSummary(args, show_by, pads) ==
  /\ pc = "start"
  /\ out' = SummaryOut(args, show_by, handle_summary(file, args, show_by, pads))
  /\ printed' = ReadWarnings
  /\ pc' = "done"
  /\ UNCHANGED <<file, tournaments>>

\* main with the graph command: the parser turns down a --metric outside its
\* choices before handle_graph is called, and hands --start-bankroll over as
\* a float
HandleGraph(args, metric, start_bankroll, has_matplotlib) ==
  /\ pc = "start"
  /\ IF metric \notin MetricChoices
     THEN /\ out' = GraphOut(args, metric, start_bankroll, has_matplotlib,
                       [steps |-> <<>>, outcome |-> "usage_error", result |-> <<>>])
          /\ printed' = <<>>
     ELSE /\ out' = GraphOut(args, metric, start_bankroll, has_matplotlib,
                       handle_graph(file, args, metric,
                         IF start_bankroll = None THEN NoFloat ELSE FloatValue(start_bankroll),
                         has_matplotlib))
          /\ printed' = IF has_matplotlib THEN ReadWarnings ELSE <<>>
  /\ pc' = "done"
  /\ UNCHANGED <<file, tournaments>>

\* main with the details command
HandleDetails(args, limit) ==
  /\ pc = "start"
  /\ out' = DetailsOut(args, limit, handle_details(file, args, limit))
  /\ printed' = ReadWarnings
  /\ pc' = "done"
  /\ UNCHANGED <<file, tournaments>>

\* the command ends; the next one starts with nothing in memory
Exit ==
  /\ pc = "done"
  /\ pc' = "start"
  /\ tournaments' = <<>>
  /\ printed' = <<>>
  /\ out' = NoOut
  /\ UNCHANGED file

Next ==
  \/ LoadTournaments
  \/ \E args \in AddArgs, today \in Todays, pads \in BOOLEAN : HandleAdd(args, today, pads)
  \/ \E from_date \in FromDates, to_date \in ToDates, room \in RoomArgs,
        format_ \in FormatArgs, currency \in CurrencyArgs :
       FilterTournaments(from_date, to_date, room, format_, currency)
  \/ CalcSummaryStats
  \/ GroupByFormat
  \/ GroupByBuyinRange
  \/ \E show_by \in ShowBy, pads \in BOOLEAN : GroupByTime(show_by, pads)
  \/ \E args \in ReadArgs, show_by \in SummaryShowBy, pads \in BOOLEAN :
       HandleSummary(args, show_by, pads)
  \/ \E args \in ReadArgs, g \in GraphArgs, has_matplotlib \in BOOLEAN :
       HandleGraph(args, g.metric, g.start_bankroll, has_matplotlib)
  \/ \E args \in ReadArgs, limit \in Limits : HandleDetails(args, limit)
  \/ Exit

Spec == Init /\ [][Next]_vars

(***************************************************************************)
(* Properties.                                                             *)
(***************************************************************************)
\* a and b are equal up to the case of their letters
SameLetter(c, d) ==
  c = d \/ \E i \in DOMAIN UpperLetters : {c, d} = {UpperLetters[i], LowerLetters[i]}
CaseInsensitiveEq(a, b) == Len(a) = Len(b) /\ \A i \in DOMAIN a : SameLetter(a[i], b[i])

\* the records of ts that satisfy P, in the order of ts
Subsequence(ts, P(_)) == SelectSeq(ts, P)
\* how often x occurs in ts
Occurrences(ts, x) == Cardinality({i \in DOMAIN ts : ts[i] = x})

\* t satisfies every criterion of the filter call o; absent(c) tells whether
\* the str criterion c counts as absent
SatisfiesCriteria(t, o, absent(_)) ==
  /\ o.from_date # NoDate => ToOrdinal(t.date) >= ToOrdinal(o.from_date)
  /\ o.to_date # NoDate => ToOrdinal(t.date) <= ToOrdinal(o.to_date)
  /\ ~absent(o.room) => CaseInsensitiveEq(t.room, o.room)
  /\ ~absent(o.format) => CaseInsensitiveEq(t.format, o.format)
  /\ ~absent(o.currency) => CaseInsensitiveEq(t.currency, o.currency)

IsNone(c) == c = None
IsNoneOrEmpty(c) == c = None \/ c = <<>>

\* C1 as stated: filter_tournaments returns the records that satisfy every
\* criterion given, in input order, a criterion counting as absent only when
\* it is None, and leaves its input unchanged.
C1_Original ==
  out.op = "filter" =>
    LET Sat(t) == SatisfiesCriteria(t, out, IsNone)
    IN  out.result = Subsequence(out.input, Sat) /\ tournaments = out.input

\* C1 amended: filter_tournaments returns exactly the records of its input, in
\* input order, that satisfy every criterion given: date >= from_date, date <=
\* to_date, and equality up to case on room, format and currency; a criterion
\* that is None, or a room, format or currency that is the empty string,
\* imposes no constraint; the input list is left unchanged.
C1_Filter ==
  out.op = "filter" =>
    LET Sat(t) == SatisfiesCriteria(t, out, IsNoneOrEmpty)
    IN  out.result = Subsequence(out.input, Sat) /\ tournaments = out.input

\* a filter call with both date bounds and all three str criteria given that
\* keeps one record of two, the kept one dated on the lower bound
C1_Witness ==
  /\ out.op = "filter"
  /\ out.from_date # NoDate /\ out.to_date # NoDate
  /\ Truthy(out.room) /\ Truthy(out.format) /\ Truthy(out.currency)
  /\ Len(out.input) = 2 /\ Len(out.result) = 1
  /\ out.result[1].date = out.from_date
  /\ out.result[1].room # out.room

\* the sum of xs from 0, left to right: the partial sums s[0] = 0,
\* s[i] = s[i-1] + xs[i]
PartialSums(xs) ==
  LET s[i \in 0..Len(xs)] == IF i = 0 THEN FZero ELSE FAdd(s[i - 1], xs[i])
  IN  s
SumOf(xs) == PartialSums(xs)[Len(xs)]
RECURSIVE IntSum(_)
IntSum(xs) == IF xs = <<>> THEN 0 ELSE Head(xs) + IntSum(Tail(xs))
Field(ts, f) == [i \in DOMAIN ts |-> ts[i][f]]
AllWhole(ts) ==
  \A i \in DOMAIN ts : IsWhole(ts[i].buy_in) /\ IsWhole(ts[i].rake) /\ IsWhole(ts[i].result)

\* the part of C2 that does not depend on how the arithmetic rounds
StatsCounts(o) ==
  /\ o.result.total = Len(o.input)
  /\ o.result.total_itm = Cardinality({i \in DOMAIN o.input : FLess(FZero, o.input[i].result)})
  /\ o.result.total_buy_in = SumOf(Field(o.input, "buy_in"))
  /\ o.result.total_rake = SumOf(Field(o.input, "rake"))
  /\ o.result.total_result = SumOf(Field(o.input, "result"))
  /\ o.result.total_cost = FAdd(o.result.total_buy_in, o.result.total_rake)

C3_Claim ==
  out.op = "stats" =>
    LET r == out.result
    IN  /\ "raised" \notin DOMAIN r.itm_pct /\ "raised" \notin DOMAIN r.roi_pct
        /\ r.total_cost = FZero => r.roi_pct = FZero
        /\ out.input = <<>> =>
             /\ r.total = 0 /\ r.total_itm = 0
             /\ r.total_buy_in = FZero /\ r.total_rake = FZero /\ r.total_cost = FZero
             /\ r.total_result = FZero /\ r.profit = FZero
             /\ r.itm_pct = FZero /\ r.roi_pct = FZero
        /\ out.input # <<>> => r.itm_pct = [num |-> r.total_itm, den |-> r.total]
        /\ r.total_cost # FZero => r.roi_pct = [num |-> r.profit, den |-> r.total_cost]

\* the labels of the four buy-in ranges, in the order of the result
RangeLabels == <<Range0, Range5, Range11, Range33>>
\* the buy-in bi lies in the half-open range the label stands for
InRange(label, bi) ==
  CASE label = Range0  -> ~FLess(bi, FZero) /\ FLess(bi, FromInt(5))
    [] label = Range5  -> ~FLess(bi, FromInt(5)) /\ FLess(bi, FromInt(11))
    [] label = Range11 -> ~FLess(bi, FromInt(11)) /\ FLess(bi, FromInt(33))
    [] label = Range33 -> ~FLess(bi, FromInt(33))

\* the records of the input are spread over the groups: each record occurs in
\* the groups together as often as in the input, and in one group only
IsPartition(groups, input) ==
  /\ \A i \in DOMAIN groups : \A j \in DOMAIN groups[i][2] :
       \E k \in DOMAIN input : input[k] = groups[i][2][j]
  /\ \A k \in DOMAIN input :
       /\ \E i \in DOMAIN groups :
            Occurrences(groups[i][2], input[k]) = Occurrences(input, input[k])
       /\ Cardinality({i \in DOMAIN groups : Occurrences(groups[i][2], input[k]) > 0}) = 1

\* C4: group_by_buyin_range returns the four keys, always all of them; every
\* input record lies in exactly one bucket and the buckets together are the
\* input; a record with buy_in in [0,5), [5,11), [11,33) or [33,oo) lies in the
\* bucket of that range, so that 5, 11 and 33 fall in the upper bucket.
C4_BuyinPartition ==
  out.op = "by_buyin" =>
    /\ [i \in DOMAIN out.result |-> out.result[i][1]] = RangeLabels
    /\ IsPartition(out.result, out.input)
    /\ \A i \in DOMAIN out.result : \A j \in DOMAIN out.result[i][2] :
         LET bi == out.result[i][2][j].buy_in
         IN  ~FLess(bi, FZero) => InRange(out.result[i][1], bi)

\* a grouping in which the boundary value 5 is met, next to a value below it
C4_Witness ==
  /\ out.op = "by_buyin"
  /\ Len(out.input) = 2
  /\ \E i \in DOMAIN out.input : out.input[i].buy_in = FromInt(5)
  /\ Len(out.result[1][2]) = 1 /\ ~out.result[1][2][1].buy_in.neg
  /\ Len(out.result[2][2]) = 1

\* C5: for mode day, week or month group_by_time puts every record in exactly
\* one group; the keys (YYYY-MM-DD, YYYY-Www, YYYY-MM) are distinct and
\* strictly ascending, and that order is chronological: every record of an
\* earlier group is dated before every record of a later group.
C5_Claim ==
  (out.op = "by_time" /\ out.show_by \in {"day", "week", "month"}) =>
    /\ IsPartition(out.result, out.input)
    /\ \A i, j \in DOMAIN out.result : i < j => StrLess(out.result[i][1], out.result[j][1])
    /\ \A i, j \in DOMAIN out.result : i < j =>
         \A a \in DOMAIN out.result[i][2], b \in DOMAIN out.result[j][2] :
           DateLess(out.result[i][2][a].date, out.result[j][2][b].date)

\* C6: group_by_time with mode "none" returns, for every input list, the empty
\* one included, exactly one group, keyed "ALL", holding the input records in
\* input order.
C6_None ==
  (out.op = "by_time" /\ out.show_by = "none") =>
    /\ Len(out.result) = 1
    /\ out.result[1][1] = ALL
    /\ out.result[1][2] = out.input

\* mode "none" applied to the empty list
C6_Witness ==
  /\ out.op = "by_time" /\ out.show_by = "none"
  /\ out.input = <<>>
  /\ file.exists /\ file.rows # <<>>

\* C7 as stated: under a mode other than none, day, week and month
\* group_by_time returns, for every input list, the single "ALL" bucket with
\* all the input records, as mode "none" does.
C7_Original ==
  (out.op = "by_time" /\ out.show_by \notin {"none", "day", "week", "month"}) =>
    out.result = <<<<ALL, out.input>>>>

\* C7 amended: under a mode other than none, day, week and month group_by_time
\* does not raise; for every non-empty input list it returns the single "ALL"
\* bucket with all the input records in input order, as mode "none" does; for
\* the empty list it returns no bucket at all.
C7_UnknownMode ==
  (out.op = "by_time" /\ out.show_by \notin {"none", "day", "week", "month"}) =>
    IF out.input = <<>> THEN out.result = <<>> ELSE out.result = <<<<ALL, out.input>>>>

\* an unknown mode applied to two records of different days, later one first
C7_Witness ==
  /\ out.op = "by_time" /\ out.show_by = "year"
  /\ Len(out.input) = 2
  /\ DateLess(out.input[2].date, out.input[1].date)

\* the key C8 names for a record
FormatKey(t) == IF t.format = <<>> THEN UNKNOWN ELSE t.format
\* the first position of the input whose record has the key k
FirstSeen(input, k) ==
  CHOOSE n \in DOMAIN input :
    FormatKey(input[n]) = k /\ \A m \in 1..(n - 1) : FormatKey(input[m]) # k

\* C8: group_by_format puts every record in exactly one group, keyed by the
\* record's format, or by "UNKNOWN" when the format is empty; the groups come
\* in the order in which their keys are first seen in the input, and the
\* records of a group keep their input order.
C8_ByFormat ==
  out.op = "by_format" =>
    /\ \A i, j \in DOMAIN out.result : i # j => out.result[i][1] # out.result[j][1]
    /\ {out.result[i][1] : i \in DOMAIN out.result} =
         {FormatKey(out.input[n]) : n \in DOMAIN out.input}
    /\ \A i \in DOMAIN out.result :
         LET HasKeyI(t) == FormatKey(t) = out.result[i][1]
         IN  out.result[i][2] = Subsequence(out.input, HasKeyI)
    /\ \A i, j \in DOMAIN out.result : i < j =>
         FirstSeen(out.input, out.result[i][1]) < FirstSeen(out.input, out.result[j][1])

\* two groups whose first-seen order is not the sorted order, one of them the
\* group of the records without a format
C8_Witness ==
  /\ out.op = "by_format"
  /\ Len(out.result) = 2
  /\ out.result[1][1] = UNKNOWN
  /\ StrLess(out.result[2][1], out.result[1][1])

\* the cell of a line under a column of the header; None when the line is too
\* short
Cell(header, cells, col) ==
  LET i == CHOOSE i \in DOMAIN header : header[i] = col
  IN  IF i <= Len(cells) THEN cells[i] ELSE None
HasColumn(header, col) == \E i \in DOMAIN header : header[i] = col
DateParses(header, cells) ==
  HasColumn(header, "date") /\ parse_date(Cell(header, cells, "date")) # DateError
\* the value C9 names for a numeric column: 0 when the column is missing or the
\* cell is blank or not a number
FloatOrZero(header, cells, col) ==
  IF ~HasColumn(header, col) THEN FZero
  ELSE IF IsFloatLiteral(Strip(Cell(header, cells, col)))
  THEN FloatValue(Strip(Cell(header, cells, col))) ELSE FZero
IntOrZero(header, cells, col) ==
  IF ~HasColumn(header, col) THEN 0
  ELSE IF IsIntLiteral(Strip(Cell(header, cells, col)))
  THEN IntValue(Strip(Cell(header, cells, col))) ELSE 0
\* the n-th smallest member of a set of numbers
Nth(S, n) == CHOOSE i \in S : Cardinality({k \in S : k < i}) = n - 1

\* load_tournaments returned the records of the rows numbered in accepted, in
\* row order, with dates parsed and numeric fields read or set to 0, and
\* printed one warning for every other row
LoadedFrom(accepted) ==
  /\ Len(tournaments) = Cardinality(accepted)
  /\ Cardinality({i \in DOMAIN printed : printed[i] # "columns"})
       = Len(file.rows) - Cardinality(accepted)
  /\ \A n \in DOMAIN tournaments :
       LET cells == file.rows[Nth(accepted, n)]
       IN  /\ tournaments[n].date = parse_date(Cell(file.header, cells, "date"))
           /\ tournaments[n].buy_in = FloatOrZero(file.header, cells, "buy_in")
           /\ tournaments[n].rake = FloatOrZero(file.header, cells, "rake")
           /\ tournaments[n].result = FloatOrZero(file.header, cells, "result")
           /\ tournaments[n].place = IntOrZero(file.header, cells, "place")
           /\ tournaments[n].players = IntOrZero(file.header, cells, "players")

RecordInvariant(t) ==
  /\ ~FLess(t.buy_in, FZero) /\ ~FLess(t.rake, FZero)
  /\ t.players >= 0 /\ t.place >= 0
  /\ t.currency # <<>> /\ Upper(t.currency) = t.currency

\* C10: every Tournament record, built by from_csv_row during ingestion or by
\* handle_add, has non-negative buy_in, rake, players and place and a
\* non-empty uppercase currency.
C10_Claim ==
  /\ \A n \in DOMAIN tournaments : RecordInvariant(tournaments[n])
  /\ (out.op = "add" /\ "t" \in DOMAIN out) => RecordInvariant(out.t)

\* C11: filter_tournaments is idempotent: filtering the result of a filter
\* again, under the same criteria, returns that result unchanged.
C11_Idempotent ==
  out.op = "filter" =>
    filter_tournaments(out.result, out.from_date, out.to_date, out.room, out.format,
                       out.currency) = out.result

\* a filter with a date range and a room that keeps one of two records
C11_Witness ==
  /\ out.op = "filter"
  /\ Len(out.input) = 2 /\ Len(out.result) = 1
  /\ out.from_date # NoDate /\ out.to_date # NoDate /\ Truthy(out.room)

\* the aggregation steps of the read-path commands
AggregationSteps ==
  {"calc_summary_stats", "group_by_format", "group_by_buyin_range", "group_by_time",
   "cumulative"}
RanAggregation(o) == \E i \in DOMAIN o.steps : o.steps[i] \in AggregationSteps
\* the command line of the run o has a parameter error: a --from or --to
\* that is not a date, a --metric that is not a metric, or the bankroll
\* metric without --start-bankroll
ParameterError(o) ==
  \/ DateArg(o.args.from_date) = DateError
  \/ DateArg(o.args.to_date) = DateError
  \/ /\ o.op = "graph"
     /\ \/ o.metric \notin MetricChoices
        \/ o.metric = "bankroll" /\ o.start_bankroll = None
\* the run ended on the report of a parameter error: the ValueError of
\* parse_date, the usage error of the parser, or one of the two messages of
\* handle_graph
Surfaced(o) ==
  o.outcome \in {"ValueError", "usage_error", "metric_error", "start_bankroll_error"}

\* C12: every run of summary, graph or details with a parameter error (an
\* invalid date filter string, an invalid metric, or the bankroll metric
\* without a starting balance) surfaces the error and ends before any
\* aggregation step has run, whatever the ledger holds, a missing ledger and
\* an empty filter result included.  (matplotlib is taken to be installed.)
C12_Claim ==
  (/\ out.op \in {"summary", "graph", "details"}
   /\ ParameterError(out)
   /\ out.op = "graph" => out.has_matplotlib)
    => Surfaced(out) /\ ~RanAggregation(out)

\* what the read-path commands do keep: a run with a parameter error never
\* runs an aggregation step, and it ends without reporting the error only on
\* a missing ledger, on an empty filter result or on a missing matplotlib
ReadPath_ParameterErrors ==
  (out.op \in {"summary", "graph", "details"} /\ ParameterError(out)) =>
    /\ ~RanAggregation(out)
    /\ Surfaced(out) \/ out.outcome \in {"FileNotFoundError", "not_found", "ImportError"}
    /\ out.outcome = "not_found" => out.op = "graph" /\ out.metric = "bankroll"

====
